---- MODULE Spec2Model ----
(***************************************************************************)
(* ecs_mon.py: one run of main(), from the parsed command line to the      *)
(* process exit.  The AWS services are the environment: every response is  *)
(* chosen when the request is made.  Python strings are sequences of       *)
(* one-character strings, so that split() and slicing act on characters.   *)
(***************************************************************************)
EXTENDS Integers, Sequences, FiniteSets, TLC

\* ------------------------------------------------------------------ bounds

\* Provider pages in one listing: page MaxPages never carries a cursor.
MaxPages == 3
\* Tasks in a list_tasks or describe_tasks response.
MaxTasks == 2
\* Container definitions in a task definition.
MaxContainers == 2

\* --------------------------------------------------------- program constants

\* PaginationConfig 'MaxItems': the items one paginate() call yields in total.
MaxItems == 100
\* PaginationConfig 'PageSize': the most items the provider puts in a page.
PageSize == 100

\* ----------------------------------------------------------------- strings

\* Python's None where the other values are strings: no string, as its one
\* element is not a character.
None == <<"None">>

\* Python's None where the other values are dicts.
NoDict == [none |-> TRUE]

\* bool(x) of a value that is None or a string.
Truthy(x) == x # None /\ x # <<>>

Digits == <<"0", "1", "2", "3", "4", "5", "6", "7", "8", "9">>

Digit(k) == Digits[k + 1]

\* The characters in code point order ('.' 46, '/' 47, digits, ':' 58, letters).
CharOrder ==
    <<".", "/">> \o Digits \o
    <<":", "H", "P", "S", "T", "Z", "a", "b", "c", "d", "e", "f", "h", "i",
      "k", "l", "p", "r", "s", "t", "v", "w", "x">>

CharCode == [c \in {CharOrder[i] : i \in 1..Len(CharOrder)} |->
                CHOOSE i \in 1..Len(CharOrder) : CharOrder[i] = c]

\* a < b on Python strings: by code point, a proper prefix first.
RECURSIVE StrLess(_, _)
StrLess(a, b) ==
    IF b = <<>> THEN FALSE
    ELSE IF a = <<>> THEN TRUE
    ELSE IF Head(a) = Head(b) THEN StrLess(Tail(a), Tail(b))
    ELSE CharCode[Head(a)] < CharCode[Head(b)]

\* s.split(sep, 1)[-1]: what follows the first sep, or s when it has none.
SplitOnceLast(s, sep) ==
    IF \E i \in 1..Len(s) : s[i] = sep
    THEN LET i == CHOOSE j \in 1..Len(s) :
                      s[j] = sep /\ \A k \in 1..(j - 1) : s[k] # sep
         IN SubSeq(s, i + 1, Len(s))
    ELSE s

\* s[:-1]
DropLast(s) == SubSeq(s, 1, Len(s) - 1)

\* s.lower() of the health-check protocols.
Lower(s) ==
    [i \in 1..Len(s) |->
        CASE s[i] = "H" -> "h"
          [] s[i] = "T" -> "t"
          [] s[i] = "P" -> "p"
          [] s[i] = "S" -> "s"
          [] OTHER -> s[i]]

\* All sequences over S of length at most n.
SeqUpTo(S, n) == UNION {[1..k -> S] : k \in 0..n}

\* dict d after d[k] = v.
DictSet(d, k, v) == [x \in DOMAIN d \cup {k} |-> IF x = k THEN v ELSE d[x]]

\* ------------------------------------------------------------ the provider

\* The opaque cursor the provider issues with page k.
Token(k) == <<"t", Digit(k)>>

\* The page a request carrying `cursor` asks for.
PageAfter(cursor) ==
    IF cursor = None THEN 1
    ELSE 1 + CHOOSE k \in 1..9 : Token(k) = cursor

\* Items in a provider page: a page short of PageSize items, and a full one.
PageLens == {40, PageSize}

\* What the provider decides about page p of a listing.
PageChoices(p) ==
    [n : PageLens, more : IF p < MaxPages THEN BOOLEAN ELSE {FALSE}]

\* The service ARNs of page p: odd pages sort after even ones.
ServiceArns(p, c) ==
    [i \in 1..c.n |->
        <<"s", "/", IF p % 2 = 1 THEN "b" ELSE "a", Digit(p),
          Digit((i - 1) \div 10), Digit((i - 1) % 10)>>]

\* A list_services response: 'nextToken' is a key only when more pages follow.
ServicePage(p, c) ==
    IF c.more
    THEN [serviceArns |-> ServiceArns(p, c), nextToken |-> Token(p)]
    ELSE [serviceArns |-> ServiceArns(p, c)]

\* The load balancer's DNS name, and the alias target of some other record.
LbDnsName == <<"l", "b">>

OtherDnsName == <<"x">>

\* Where a zone page holds the alias record of the load balancer: nowhere,
\* first, last, or first but as an AAAA alias.
DnsKinds == {"none", "first", "last", "aaaa"}

AliasRecord(name, type, target) ==
    [Name |-> name, Type |-> type,
     AliasTarget |-> [DNSName |-> target \o <<".">>]]

\* The other records of a zone: TXT, A with literal addresses, A aliases of
\* another target.
FillerRecord(i) ==
    CASE i % 3 = 0 -> [Name |-> <<"f", ".">>, Type |-> "TXT"]
      [] i % 3 = 1 -> [Name |-> <<"h", ".">>, Type |-> "A"]
      [] OTHER     -> AliasRecord(<<"w", ".">>, "A", OtherDnsName)

ResourceRecordSets(c, kind) ==
    [i \in 1..c.n |->
        CASE kind = "first" /\ i = 1   -> AliasRecord(<<"a", "p", "p", ".">>, "A", LbDnsName)
          [] kind = "last" /\ i = c.n  -> AliasRecord(<<"a", "p", "p", ".">>, "A", LbDnsName)
          [] kind = "aaaa" /\ i = 1    -> AliasRecord(<<"a", "p", "p", ".">>, "AAAA", LbDnsName)
          [] OTHER                     -> FillerRecord(i)]

\* A list_resource_record_sets response: 'NextRecordName' is a key only when
\* the zone is truncated after this page.
ZonePage(p, c, kind) ==
    IF c.more
    THEN [ResourceRecordSets |-> ResourceRecordSets(c, kind),
          NextRecordName |-> Token(p)]
    ELSE [ResourceRecordSets |-> ResourceRecordSets(c, kind)]

TaskArns == {<<"t", "/", "a">>, <<"t", "/", "c", "/", "b">>}

TaskDefinitionArn == <<"d", "/", "f", ":", "1">>

LastStatuses == {"RUNNING", "PENDING"}

\* Image references: repository and tag, and one whose registry names a port.
Images == {<<"r", ":", "1">>, <<"h", ":", "5", "/", "r", ":", "2">>}

Protocols == {<<"H", "T", "T", "P">>}

\* ------------------------------------------------------------ the paginator

\* paginator.paginate(...): an iterator that has yet to make its first
\* request, which carries `start`.
paginate(start) == [token |-> start, total_items |-> 0, exhausted |-> FALSE]

\* Items the iterator cuts from the end of `page`, so that the call yields
\* MaxItems items in all.
TruncateAmount(it, page, key) ==
    IF it.total_items + Len(page[key]) > MaxItems
    THEN it.total_items + Len(page[key]) - MaxItems
    ELSE 0

\* The page the iterator yields for the provider's `page`.
Yielded(it, page, key) ==
    [page EXCEPT ![key] =
        SubSeq(page[key], 1, Len(page[key]) - TruncateAmount(it, page, key))]

\* The iterator after yielding `page`: it stops at a truncated page, at a page
\* without a cursor and when MaxItems items were yielded; otherwise its next
\* request carries the page's cursor.
Advance(it, page, key, cursorKey) ==
    LET total == it.total_items + Len(page[key])
    IN  IF TruncateAmount(it, page, key) > 0 \/ cursorKey \notin DOMAIN page
           \/ total = MaxItems
        THEN [it EXCEPT !.exhausted = TRUE]
        ELSE [token |-> page[cursorKey], total_items |-> total,
              exhausted |-> FALSE]

\* The cursor of a provider page, or None.
CursorOf(page, cursorKey) ==
    IF cursorKey \in DOMAIN page THEN page[cursorKey] ELSE None

\* -------------------------------------------------------------------- state

VARIABLES
    args,                 \* parse_args(): profile, svc, dns (a string or None), alb
    environ,              \* os.environ
    pc,                   \* the statement main() or its callee is at
    exit_code,            \* the process exit status, None while running
    output,               \* what the run wrote to the terminal, in order
    requests,             \* every provider request: api, cursor, cursor returned
    alb_info,             \* main
    svc_tg_arn,           \* main
    tasks,                \* main
    more,                 \* main
    taskArns,             \* get_svc_tasks_list: response['taskArns']
    response,             \* display_svc_tsk: response['tasks']
    index,                \* display_svc_tsk
    tsk_table,            \* display_svc_tsk: the rows added
    containerDefinitions, \* get_tsk_def_img_tag: the task definition's
    img_tag,              \* get_tsk_def_img_tag, display_svc_tsk
    img_tags,             \* the image tag get_tsk_def_img_tag returned, per call
    svcPages,             \* the list_services pages the provider has served
    page_iterator,        \* list_svc
    svc_list,             \* list_svc
    NextToken,            \* list_svc
    NextTone,             \* list_svc (line 116)
    next_token,           \* get_dns_records_100x: its parameter
    source_zone_records,  \* get_dns_records_100x: the page iterator
    dnsNextToken,         \* get_dns_records_100x: its NextToken
    dnsMap,               \* get_dns_records_100x
    return_to,            \* get_dns_records_100x: the statement of main it returns to
    fetched               \* what each get_dns_records_100x call returned

vars ==
    <<args, environ, pc, exit_code, output, requests, alb_info, svc_tg_arn,
      tasks, more, taskArns, response, index, tsk_table, containerDefinitions,
      img_tag, img_tags, svcPages, page_iterator, svc_list, NextToken,
      NextTone, next_token, source_zone_records, dnsNextToken, dnsMap,
      return_to, fetched>>

mainVars == <<alb_info, svc_tg_arn, tasks, more>>

tskVars ==
    <<taskArns, response, index, tsk_table, containerDefinitions, img_tag,
      img_tags>>

svcVars == <<svcPages, page_iterator, svc_list, NextToken, NextTone>>

dnsVars ==
    <<next_token, source_zone_records, dnsNextToken, dnsMap, return_to,
      fetched>>

\* print(...)
print(line) == output' = Append(output, line)

\* A request to the provider and the cursor it answered with.
request(api, cursor, reply) ==
    requests' = Append(requests, [api |-> api, cursor |-> cursor, reply |-> reply])

\* sys.exit(code), or the end of main (code 0).
exit(code) == pc' = "exit" /\ exit_code' = code

\* An exception nothing catches: the interpreter writes the traceback and
\* exits with status 1.
uncaught(error) == print([line |-> "Traceback", error |-> error]) /\ exit(1)

Init ==
    /\ args \in [profile : {None, <<"p">>}, svc : {None, <<"w">>},
                 dns : {None, <<"Z">>}, alb : BOOLEAN]
    /\ environ \in {<<>>, [AWS_PROFILE |-> <<"e">>]}
    /\ pc = "main"
    /\ exit_code = None
    /\ output = <<>>
    /\ requests = <<>>
    /\ alb_info = NoDict
    /\ svc_tg_arn = None
    /\ tasks = <<>>
    /\ more = NoDict
    /\ taskArns = <<>>
    /\ response = <<>>
    /\ index = 0
    /\ tsk_table = <<>>
    /\ containerDefinitions = <<>>
    /\ img_tag = None
    /\ img_tags = <<>>
    /\ svcPages = <<>>
    /\ page_iterator = NoDict
    /\ svc_list = <<>>
    /\ NextToken = None
    /\ NextTone = None
    /\ next_token = None
    /\ source_zone_records = NoDict
    /\ dnsNextToken = None
    /\ dnsMap = <<>>
    /\ return_to = "main_232"
    /\ fetched = <<>>

\* --------------------------------------------------------------------- main

\* main, lines 202-210: the profile of --profile, else of AWS_PROFILE, else
\* exit 1.
main_profile ==
    /\ pc = "main"
    /\ IF Truthy(args.profile)
       THEN /\ pc' = "get_aws_account_id"
            /\ UNCHANGED <<args, output, exit_code>>
       ELSE IF "AWS_PROFILE" \in DOMAIN environ
       THEN /\ args' = [args EXCEPT !.profile = environ.AWS_PROFILE]
            /\ print([line |-> "aws profile", profile |-> environ.AWS_PROFILE])
            /\ pc' = "get_aws_account_id"
            /\ UNCHANGED exit_code
       ELSE /\ print([line |-> "Please provide an AWS profile or set AWS_PROFILE env"])
            /\ exit(1)
            /\ UNCHANGED args
    /\ UNCHANGED <<environ, requests, mainVars, tskVars, svcVars, dnsVars>>

\* get_aws_account_id, lines 177-181, called at line 211.
get_aws_account_id ==
    /\ pc = "get_aws_account_id"
    /\ request("get_caller_identity", None, None)
    /\ print([line |-> "account_id"])
    /\ pc' = "main_212"
    /\ UNCHANGED <<args, environ, exit_code, mainVars, tskVars, svcVars, dnsVars>>

\* main, lines 212-215 and 227-228: the cluster name, then the service's report
\* or the cluster's services.
main_cluster ==
    /\ pc = "main_212"
    /\ IF Truthy(args.svc)
       THEN /\ output' = output \o <<[line |-> "cluster name"],
                                     [line |-> "service name", svc |-> args.svc]>>
            /\ pc' = IF args.alb THEN "get_svc_alb_tg_arn" ELSE "get_svc_tasks_list"
       ELSE /\ print([line |-> "cluster name"])
            /\ pc' = "list_svc"
    /\ UNCHANGED <<args, environ, exit_code, requests, mainVars, tskVars,
                   svcVars, dnsVars>>

\* What describe_services may answer: no such service, a service without a
\* load balancer, a service behind a target group.
ServicesResponses ==
    {<<>>,
     <<[loadBalancers |-> <<>>]>>,
     <<[loadBalancers |-> <<[targetGroupArn |-> <<"t", "g">>]>>]>>}

\* get_svc_alb_tg_arn whose IndexError handler prints and does not exit: the
\* function returns None and main goes on.
get_svc_alb_tg_arn_noexit ==
    /\ pc = "get_svc_alb_tg_arn"
    /\ \E services \in ServicesResponses :
        /\ request("describe_services", None, services)
        /\ IF services = <<>>
           THEN /\ print([line |-> "Cannot find ECS service", svc |-> args.svc])
                /\ exit(1)
                /\ UNCHANGED svc_tg_arn
           ELSE IF services[1].loadBalancers = <<>>
           THEN /\ output' = output \o
                     <<[line |-> "This service does not connect to a load balancer."],
                       [line |-> "IndexError"]>>
                /\ svc_tg_arn' = None
                /\ pc' = "get_svc_alb_healthccheck_info"
                /\ UNCHANGED exit_code
           ELSE /\ svc_tg_arn' = services[1].loadBalancers[1].targetGroupArn
                /\ pc' = "get_svc_alb_healthccheck_info"
                /\ UNCHANGED <<output, exit_code>>
    /\ UNCHANGED <<args, environ, alb_info, tasks, more, tskVars, svcVars, dnsVars>>

\* get_svc_alb_tg_arn, lines 61-76, called at line 216.
get_svc_alb_tg_arn ==
    /\ pc = "get_svc_alb_tg_arn"
    /\ \E services \in ServicesResponses :
        /\ request("describe_services", None, services)
        /\ IF services = <<>>
           THEN /\ print([line |-> "Cannot find ECS service", svc |-> args.svc])
                /\ exit(1)
                /\ UNCHANGED svc_tg_arn
           ELSE IF services[1].loadBalancers = <<>>
           THEN /\ output' = output \o
                     <<[line |-> "This service does not connect to a load balancer."],
                       [line |-> "IndexError"]>>
                /\ exit(1)
                /\ UNCHANGED svc_tg_arn
           ELSE /\ svc_tg_arn' = services[1].loadBalancers[1].targetGroupArn
                /\ pc' = "get_svc_alb_healthccheck_info"
                /\ UNCHANGED <<output, exit_code>>
    /\ UNCHANGED <<args, environ, alb_info, tasks, more, tskVars, svcVars, dnsVars>>

\* get_svc_alb_healthccheck_info, lines 78-94, called at line 218, and the
\* service url of lines 220-223.
get_svc_alb_healthccheck_info ==
    /\ pc = "get_svc_alb_healthccheck_info"
    /\ \E protocol \in Protocols :
        /\ alb_info' = [LoadBalancerArns |-> <<"a", "l", "b">>,
                        HealthCheckProtocol |-> protocol,
                        HealthCheckPath |-> <<"/", "h">>,
                        DNSName |-> LbDnsName]
        /\ requests' = requests \o
              <<[api |-> "describe_target_groups", cursor |-> None, reply |-> None],
                [api |-> "describe_load_balancers", cursor |-> None, reply |-> None]>>
        /\ print([line |-> "service url",
                  url |-> Lower(protocol) \o <<":", "/", "/">> \o LbDnsName
                          \o <<"/", "h">>])
    /\ pc' = "get_svc_tasks_list"
    /\ UNCHANGED <<args, environ, exit_code, svc_tg_arn, tasks, more, tskVars,
                   svcVars, dnsVars>>

\* ---------------------------------------------------------- the task report

\* get_svc_tasks_list, lines 17-27, called at line 224.
get_svc_tasks_list ==
    /\ pc = "get_svc_tasks_list"
    /\ \E arns \in SeqUpTo(TaskArns, MaxTasks) :
        /\ taskArns' = arns
        /\ tasks' = [i \in 1..Len(arns) |-> SplitOnceLast(arns[i], "/")]
    /\ request("list_tasks", None, None)
    /\ pc' = "display_svc_tsk"
    /\ UNCHANGED <<args, environ, exit_code, output, alb_info, svc_tg_arn, more,
                   response, index, tsk_table, containerDefinitions, img_tag,
                   img_tags, svcVars, dnsVars>>

\* What describe_tasks may answer: the tasks it found, each with its task
\* definition and last status.
TasksResponses ==
    SeqUpTo([taskDefinitionArn : {TaskDefinitionArn}, lastStatus : LastStatuses],
            MaxTasks)

\* display_svc_tsk, lines 42-51, called at line 226 with task_list = tasks.
\* The provider may reject a request that names no task.
display_svc_tsk ==
    /\ pc = "display_svc_tsk"
    /\ request("describe_tasks", None, None)
    /\ \/ /\ \E r \in TasksResponses : response' = r
          /\ index' = 0
          /\ tsk_table' = <<>>
          /\ img_tags' = <<>>
          /\ pc' = "display_for"
          /\ UNCHANGED <<output, exit_code>>
       \/ /\ tasks = <<>>
          /\ uncaught("InvalidParameterException")
          /\ UNCHANGED <<response, index, tsk_table, img_tags>>
    /\ taskArns' = <<>>
    /\ UNCHANGED <<args, environ, mainVars, containerDefinitions, img_tag,
                   svcVars, dnsVars>>

\* get_tsk_def_img_tag, lines 32 and 37-39: the loop over the container
\* definitions, each overwriting img_tag.
RECURSIVE ImgTagLoop(_, _)
ImgTagLoop(tag, defs) ==
    IF defs = <<>> THEN tag
    ELSE ImgTagLoop(SplitOnceLast(Head(defs).image, ":"), Tail(defs))

\* get_tsk_def_img_tag, lines 30-39, called at line 53 for the next task of
\* the response; display_svc_tsk line 52 ends the loop.
get_tsk_def_img_tag ==
    /\ pc = "display_for"
    /\ IF index < Len(response)
       THEN /\ \E defs \in SeqUpTo([image : Images], MaxContainers) :
                /\ containerDefinitions' = defs
                /\ img_tag' = ImgTagLoop(None, defs)
                /\ img_tags' = Append(img_tags, ImgTagLoop(None, defs))
            /\ request("describe_task_definition", None, None)
            /\ pc' = "display_add_row"
       ELSE /\ pc' = "display_print"
            /\ UNCHANGED <<containerDefinitions, img_tag, img_tags, requests>>
    /\ UNCHANGED <<args, environ, exit_code, output, mainVars, taskArns,
                   response, index, tsk_table, svcVars, dnsVars>>

\* The row of lines 54-56 for task i of the response.
TaskRow(task_list, idx, i, tag) ==
    <<task_list[idx + 1], SplitOnceLast(i.taskDefinitionArn, "/"),
      i.lastStatus, tag>>

\* display_svc_tsk, lines 54-58: task_list[index] raises IndexError when the
\* response holds more tasks than were listed.
display_add_row ==
    /\ pc = "display_add_row"
    /\ IF index + 1 > Len(tasks)
       THEN /\ uncaught("IndexError")
            /\ UNCHANGED <<tsk_table, index>>
       ELSE /\ tsk_table' = Append(tsk_table,
                                   TaskRow(tasks, index, response[index + 1], img_tag))
            /\ index' = index + 1
            /\ pc' = "display_for"
            /\ UNCHANGED <<output, exit_code>>
    /\ containerDefinitions' = <<>>
    /\ UNCHANGED <<args, environ, requests, mainVars, taskArns, response,
                   img_tag, img_tags, svcVars, dnsVars>>

\* display_svc_tsk, line 59.
display_print ==
    /\ pc = "display_print"
    /\ print([line |-> "tsk_table", rows |-> Len(tsk_table)])
    /\ pc' = "display_return"
    /\ UNCHANGED <<args, environ, exit_code, requests, mainVars, tskVars,
                   svcVars, dnsVars>>

\* display_svc_tsk returns: its locals are gone.
display_return ==
    /\ pc = "display_return"
    /\ response' = <<>>
    /\ index' = 0
    /\ tsk_table' = <<>>
    /\ img_tag' = None
    /\ img_tags' = <<>>
    /\ pc' = "main_230"
    /\ UNCHANGED <<args, environ, exit_code, output, requests, mainVars,
                   taskArns, containerDefinitions, svcVars, dnsVars>>

\* ------------------------------------------------------------------ list_svc

\* What a failed request answers.
Error == <<"Error">>

\* The list_services page a request carrying `cursor` gets: the page served
\* before for that cursor, else one the provider decides now.
ServedPages(cursor) ==
    IF PageAfter(cursor) <= Len(svcPages)
    THEN {svcPages[PageAfter(cursor)]}
    ELSE {ServicePage(PageAfter(cursor), c) : c \in PageChoices(PageAfter(cursor))}

\* The provider's pages after serving `raw` for `cursor`.
Served(cursor, raw) ==
    IF PageAfter(cursor) <= Len(svcPages) THEN svcPages ELSE Append(svcPages, raw)

\* list_svc, lines 97-110, called at line 228.
list_svc ==
    /\ pc = "list_svc"
    /\ svc_list' = <<>>
    /\ NextToken' = None
    /\ page_iterator' = paginate(None)
    /\ pc' = "list_for1"
    /\ UNCHANGED <<args, environ, exit_code, output, requests, mainVars,
                   tskVars, svcPages, NextTone, dnsVars>>

\* list_svc, lines 111-116: the iterator requests its next page and the loop
\* body runs on it.
list_svc_for1 ==
    /\ pc = "list_for1"
    /\ \E raw \in ServedPages(page_iterator.token) :
        LET page == Yielded(page_iterator, raw, "serviceArns")
            it == Advance(page_iterator, raw, "serviceArns", "nextToken")
        IN  /\ request("list_services", page_iterator.token,
                       CursorOf(raw, "nextToken"))
            /\ svcPages' = Served(page_iterator.token, raw)
            /\ svc_list' = page.serviceArns
            /\ IF "nextToken" \in DOMAIN page
               THEN NextToken' = page.nextToken /\ UNCHANGED NextTone
               ELSE NextTone' = None /\ UNCHANGED NextToken
            /\ page_iterator' = it
            /\ pc' = IF it.exhausted THEN "list_while" ELSE "list_for1"
    /\ UNCHANGED <<args, environ, exit_code, output, mainVars, tskVars, dnsVars>>

\* list_svc, lines 118-126: while NextToken, paginate again from it.
list_svc_while ==
    /\ pc = "list_while"
    /\ IF Truthy(NextToken)
       THEN /\ page_iterator' = paginate(NextToken)
            /\ pc' = "list_for2"
       ELSE /\ pc' = "list_sort"
            /\ UNCHANGED page_iterator
    /\ UNCHANGED <<args, environ, exit_code, output, requests, mainVars,
                   tskVars, svcPages, svc_list, NextToken, NextTone, dnsVars>>

\* list_svc, lines 127-132.
list_svc_for2 ==
    /\ pc = "list_for2"
    /\ \E raw \in ServedPages(page_iterator.token) :
        LET page == Yielded(page_iterator, raw, "serviceArns")
            it == Advance(page_iterator, raw, "serviceArns", "nextToken")
        IN  /\ request("list_services", page_iterator.token,
                       CursorOf(raw, "nextToken"))
            /\ svcPages' = Served(page_iterator.token, raw)
            /\ NextToken' = IF "nextToken" \in DOMAIN page
                            THEN page.nextToken ELSE None
            /\ svc_list' = svc_list \o page.serviceArns
            /\ page_iterator' = it
            /\ pc' = IF it.exhausted THEN "list_while" ELSE "list_for2"
    /\ UNCHANGED <<args, environ, exit_code, output, mainVars, tskVars,
                   NextTone, dnsVars>>

\* list.sort() of strings.
Sorted(list) == SortSeq(list, StrLess)

\* list_svc, lines 133-135; main goes on at line 230.
list_svc_print ==
    /\ pc = "list_sort"
    /\ svc_list' = Sorted(svc_list)
    /\ output' = output \o
          [i \in 1..Len(svc_list) |->
              [line |-> "svc", name |-> SplitOnceLast(svc_list'[i], "/")]]
    /\ pc' = "main_230"
    /\ UNCHANGED <<args, environ, exit_code, requests, mainVars, tskVars,
                   svcPages, page_iterator, NextToken, NextTone, dnsVars>>

\* list_svc whose handler ends the run with sys.exit(1).
list_svc_except_exit ==
    /\ pc \in {"list_for1", "list_for2"}
    /\ request("list_services", page_iterator.token, Error)
    /\ output' = output \o
          <<[line |-> "Cannot find ECS services from the provided ECS cluster"],
            [line |-> "error"]>>
    /\ exit(1)
    /\ UNCHANGED <<args, environ, mainVars, tskVars, svcVars, dnsVars>>

\* list_svc, lines 138-140: a request of either loop raises; the handler
\* prints and list_svc returns.
list_svc_except ==
    /\ pc \in {"list_for1", "list_for2"}
    /\ request("list_services", page_iterator.token, Error)
    /\ output' = output \o
          <<[line |-> "Cannot find ECS services from the provided ECS cluster"],
            [line |-> "error"]>>
    /\ pc' = "main_230"
    /\ UNCHANGED <<args, environ, exit_code, mainVars, tskVars, svcVars, dnsVars>>

\* ------------------------------------------------------ the DNS correlation

\* main, lines 230-231: the first get_dns_records_100x call, or the end.
main_dns ==
    /\ pc = "main_230"
    /\ IF Truthy(args.dns) /\ Truthy(args.svc)
       THEN /\ next_token' = None
            /\ return_to' = "main_232"
            /\ pc' = "get_dns_records_100x"
            /\ UNCHANGED exit_code
       ELSE /\ exit(0)
            /\ UNCHANGED <<next_token, return_to>>
    /\ UNCHANGED <<args, environ, output, requests, mainVars, tskVars, svcVars,
                   source_zone_records, dnsNextToken, dnsMap, fetched>>

\* get_dns_records_100x, lines 143-158.
get_dns_records_100x ==
    /\ pc = "get_dns_records_100x"
    /\ source_zone_records' = paginate(next_token)
    /\ dnsNextToken' = None
    /\ dnsMap' = <<>>
    /\ pc' = "dns_for"
    /\ UNCHANGED <<args, environ, exit_code, output, requests, mainVars,
                   tskVars, svcVars, next_token, return_to, fetched>>

\* get_dns_records_100x, lines 164-168: the alias A records of a page, each
\* entered under its target without the last character.  A later record of
\* the same target overwrites an earlier one.
AddRecords(map, records) ==
    LET alias == {i \in 1..Len(records) :
                     records[i].Type = "A" /\ "AliasTarget" \in DOMAIN records[i]}
        key(i) == DropLast(records[i].AliasTarget.DNSName)
        last(k) == CHOOSE i \in alias :
                       key(i) = k /\ \A j \in alias : key(j) = k => j <= i
    IN  [k \in DOMAIN map \cup {key(i) : i \in alias} |->
            IF \E i \in alias : key(i) = k
            THEN DropLast(records[last(k)].Name)
            ELSE map[k]]

\* get_dns_records_100x, lines 159-168: the iterator requests its next page
\* and the loop body runs on it.
get_dns_records_100x_for ==
    /\ pc = "dns_for"
    /\ \E c \in PageChoices(PageAfter(source_zone_records.token)), kind \in DnsKinds :
        LET raw == ZonePage(PageAfter(source_zone_records.token), c, kind)
            record_set == Yielded(source_zone_records, raw, "ResourceRecordSets")
            it == Advance(source_zone_records, raw, "ResourceRecordSets",
                          "NextRecordName")
        IN  /\ request("list_resource_record_sets", source_zone_records.token,
                       CursorOf(raw, "NextRecordName"))
            /\ dnsNextToken' = IF "NextRecordName" \in DOMAIN record_set
                               THEN record_set.NextRecordName ELSE None
            /\ dnsMap' = AddRecords(dnsMap, record_set.ResourceRecordSets)
            /\ source_zone_records' = it
            /\ pc' = IF it.exhausted THEN "dns_return" ELSE "dns_for"
    /\ UNCHANGED <<args, environ, exit_code, output, mainVars, tskVars, svcVars,
                   next_token, return_to, fetched>>

\* get_dns_records_100x, line 169: main assigns the result to more.
get_dns_records_100x_return ==
    /\ pc = "dns_return"
    /\ more' = [nextToken |-> dnsNextToken, dnsMap |-> dnsMap]
    /\ fetched' = Append(fetched, [nextToken |-> dnsNextToken, dnsMap |-> dnsMap])
    /\ source_zone_records' = NoDict
    /\ dnsNextToken' = None
    /\ dnsMap' = <<>>
    /\ pc' = return_to
    /\ UNCHANGED <<args, environ, exit_code, output, requests, alb_info,
                   svc_tg_arn, tasks, tskVars, svcVars, next_token, return_to>>

\* get_dns_records_100x, lines 171-174: a request raises; the handler prints
\* and raises again, and main does not catch it.
get_dns_records_100x_except ==
    /\ pc = "dns_for"
    /\ request("list_resource_record_sets", source_zone_records.token, Error)
    /\ output' = output \o
          <<[line |-> "An error occurred getting source zone records:"],
            [line |-> "error"],
            [line |-> "Traceback", error |-> "Exception"]>>
    /\ exit(1)
    /\ UNCHANGED <<args, environ, mainVars, tskVars, svcVars, dnsVars>>

\* The R53 URL line of lines 234-239 and 242-247.
R53Url ==
    [line |-> "R53 URL",
     url |-> Lower(alb_info.HealthCheckProtocol) \o <<":", "/", "/">>
             \o more.dnsMap[alb_info.DNSName] \o alb_info.HealthCheckPath]

\* main, lines 232-239: a first page without a cursor is searched here.
\* alb_info['DNSName'] raises TypeError when alb_info is None.
main_first_page ==
    /\ pc = "main_232"
    /\ IF more.nextToken = None
       THEN IF alb_info = NoDict
            THEN uncaught("TypeError")
            ELSE /\ IF alb_info.DNSName \in DOMAIN more.dnsMap
                    THEN print(R53Url)
                    ELSE UNCHANGED output
                 /\ pc' = "main_240"
                 /\ UNCHANGED exit_code
       ELSE /\ pc' = "main_240"
            /\ UNCHANGED <<output, exit_code>>
    /\ UNCHANGED <<args, environ, requests, mainVars, tskVars, svcVars, dnsVars>>

\* main, lines 240-252: while the last result has a cursor, search it, and
\* stop at a match or fetch from the cursor.
main_while ==
    /\ pc = "main_240"
    /\ IF Truthy(more.nextToken)
       THEN IF alb_info = NoDict
            THEN /\ uncaught("TypeError")
                 /\ UNCHANGED <<next_token, return_to>>
            ELSE IF alb_info.DNSName \in DOMAIN more.dnsMap
            THEN /\ print(R53Url)
                 /\ exit(0)
                 /\ UNCHANGED <<next_token, return_to>>
            ELSE /\ next_token' = more.nextToken
                 /\ return_to' = "main_240"
                 /\ pc' = "get_dns_records_100x"
                 /\ UNCHANGED <<output, exit_code>>
       ELSE /\ exit(0)
            /\ UNCHANGED <<output, next_token, return_to>>
    /\ UNCHANGED <<args, environ, requests, mainVars, tskVars, svcVars,
                   source_zone_records, dnsNextToken, dnsMap, fetched>>

\* ---------------------------------------------------------- specification

Next ==
    \/ main_profile
    \/ get_aws_account_id
    \/ main_cluster
    \/ get_svc_alb_tg_arn
    \/ get_svc_alb_healthccheck_info
    \/ get_svc_tasks_list
    \/ display_svc_tsk
    \/ get_tsk_def_img_tag
    \/ display_add_row
    \/ display_print
    \/ display_return
    \/ list_svc
    \/ list_svc_for1
    \/ list_svc_while
    \/ list_svc_for2
    \/ list_svc_print
    \/ list_svc_except
    \/ main_dns
    \/ get_dns_records_100x
    \/ get_dns_records_100x_for
    \/ get_dns_records_100x_return
    \/ get_dns_records_100x_except
    \/ main_first_page
    \/ main_while

Spec == Init /\ [][Next]_vars

\* ------------------------------------------------------------------- claims

\* What follows the last sep of s, or s when it has none.
AfterLast(s, sep) ==
    IF \E i \in 1..Len(s) : s[i] = sep
    THEN LET i == CHOOSE j \in 1..Len(s) :
                      s[j] = sep /\ \A k \in (j + 1)..Len(s) : s[k] # sep
         IN SubSeq(s, i + 1, Len(s))
    ELSE s

\* The requests made of one api, in order.
Calls(api) == SelectSeq(requests, LAMBDA r : r.api = api)

\* The lines of one kind printed, in order.
Lines(kind) == SelectSeq(output, LAMBDA l : l.line = kind)

Printed(kind) == Lines(kind) # <<>>

\* main returned or ran to its end.
Completed == pc = "exit" /\ exit_code = 0

\* The R53 URL line for a record name.
R53UrlOf(name) ==
    Lower(alb_info.HealthCheckProtocol) \o <<":", "/", "/">> \o name
    \o alb_info.HealthCheckPath

\* Result i of get_dns_records_100x maps the load balancer's DNS name.
Matches(i) == alb_info.DNSName \in DOMAIN fetched[i].dnsMap

\* C1: in a run that completes, whenever a result of get_dns_records_100x maps
\* the load balancer's DNS name, the last result of a zone of several pages
\* included, the R53 URL line of the matching record name was printed.
C1_NoPageDropped ==
    (Completed /\ alb_info # NoDict) =>
        \A i \in 1..Len(fetched) :
            Matches(i) =>
                \E j \in 1..Len(output) :
                    /\ output[j].line = "R53 URL"
                    /\ output[j].url = R53UrlOf(fetched[i].dnsMap[alb_info.DNSName])

\* A list_services request raised.
ListFailed ==
    \E i \in 1..Len(requests) :
        requests[i].api = "list_services" /\ requests[i].reply = Error

\* list_svc printed its list and returned.
Listed == pc = "main_230" /\ ~Truthy(args.svc) /\ ~ListFailed

RECURSIVE AllServiceArns(_)
AllServiceArns(pages) ==
    IF pages = <<>> THEN <<>>
    ELSE Head(pages).serviceArns \o AllServiceArns(Tail(pages))

\* C2: when list_svc has printed, and the last page the provider served has no
\* cursor, the names printed are those of all the pages' items, each once, in
\* sorted order.
C2_SortedConcatenation ==
    (Listed /\ "nextToken" \notin DOMAIN svcPages[Len(svcPages)]) =>
        LET all == Sorted(AllServiceArns(svcPages))
        IN  /\ Len(Lines("svc")) = Len(all)
            /\ \A i \in 1..Len(all) :
                   Lines("svc")[i].name = SplitOnceLast(all[i], "/")

NoLoadBalancer ==
    \E i \in 1..Len(requests) :
        /\ requests[i].api = "describe_services"
        /\ requests[i].reply # <<>>
        /\ requests[i].reply[1].loadBalancers = <<>>

\* C4: once describe_services has answered --svc --alb with a service that has
\* no load balancer, the message is printed, the process has exited with
\* status 1, and describe_services was the last request: no DNS zone request
\* and no task listing or describe call was made, --dns given or not.
C4_NoLoadBalancerExits ==
    NoLoadBalancer =>
        /\ Printed("This service does not connect to a load balancer.")
        /\ pc = "exit"
        /\ exit_code = 1
        /\ requests[Len(requests)].api = "describe_services"
        /\ \A i \in 1..Len(requests) :
               requests[i].api \notin
                   {"list_resource_record_sets", "list_tasks", "describe_tasks",
                    "describe_task_definition"}

\* --svc, --alb and --dns were given, the service has no load balancer, and
\* the run has ended.
C4_Witness ==
    /\ NoLoadBalancer
    /\ Truthy(args.svc) /\ args.alb /\ Truthy(args.dns)
    /\ pc = "exit"

\* Row k of the table carries the k-th listed identifier, and the status and
\* image tag of the k-th described task.
RowAligned(k) ==
    /\ tsk_table[k][1] = tasks[k]
    /\ tsk_table[k][3] = response[k].lastStatus
    /\ tsk_table[k][4] = img_tags[k]

\* C5: the printed table has one row per listed identifier, in the order
\* listed, row k aligned with the k-th described task.
C5_OneRowPerIdentifier ==
    pc = "display_return" =>
        /\ Len(tsk_table) = Len(tasks)
        /\ \A k \in 1..Len(tsk_table) : RowAligned(k)

\* C6: the tag get_tsk_def_img_tag returns is what follows the last colon of
\* the last container definition's image, and None without container
\* definitions.
C6_TagAfterLastColon ==
    pc = "display_add_row" =>
        img_tag = IF containerDefinitions = <<>> THEN None
                  ELSE AfterLast(containerDefinitions[Len(containerDefinitions)].image, ":")

\* The requests of a paginated api chain: the first carries no cursor, each
\* later one the cursor the request before it was answered with.
Chained(api) ==
    \A i \in 1..Len(Calls(api)) :
        IF i = 1 THEN Calls(api)[i].cursor = None
        ELSE /\ Calls(api)[i - 1].reply # None
             /\ Calls(api)[i].cursor = Calls(api)[i - 1].reply

\* C7: in the service listing and in the DNS zone walk, the first request
\* carries no cursor, each later one the cursor of the page received last, and
\* none follows a page without a cursor.
C7_CursorsChain ==
    Chained("list_services") /\ Chained("list_resource_record_sets")

\* C8: in a run that completes, a result of get_dns_records_100x that maps the
\* load balancer's DNS name is the last one fetched, and the R53 URL line was
\* printed exactly once.
C8_StopsAtFirstMatch ==
    (Completed /\ alb_info # NoDict) =>
        \A i \in 1..Len(fetched) :
            Matches(i) => i = Len(fetched) /\ Len(Lines("R53 URL")) = 1

\* C9: the identifiers get_svc_tasks_list returns are what follows the last
\* '/' of each task ARN, in the order of the response.
C9_IdAfterLastSlash ==
    pc = "display_svc_tsk" =>
        /\ Len(tasks) = Len(taskArns)
        /\ \A i \in 1..Len(taskArns) : tasks[i] = AfterLast(taskArns[i], "/")

\* C10: whenever main is about to look the load balancer's DNS name up in a
\* result (line 233 or 241), alb_info is set.
C10_AlbInfoResolved ==
    (\/ pc = "main_232" /\ more.nextToken = None
     \/ pc = "main_240" /\ Truthy(more.nextToken)) =>
        alb_info # NoDict
====
